---- MODULE Spec2Model ----
(***************************************************************************)
(* Model of src/test-ghost-text.py, the xCopilot ghost-text fixture for    *)
(* Python.  The fixture is text: the model keeps every line verbatim, and  *)
(* two readers consume it line by line, in file order:                     *)
(*   - the tester, who follows the numbered instructions of the trailing   *)
(*     docstring (open the file, place the cursor at the end of every      *)
(*     comment line mentioning "Cursor here");                             *)
(*   - a Python front end (tokenizer plus block structure), which is what  *)
(*     decides whether the file is a valid Python module.                  *)
(* Every fact about a line (indentation, comment, heading number, ...) is  *)
(* computed from the characters of the line.                               *)
(***************************************************************************)
EXTENDS Integers, Sequences, FiniteSets, TLC

VARIABLES
    tpc,         \* tester: "closed", "reading", "done"
    tline,       \* tester: number of the line being read (0 before the first)
    region,      \* region of that line: "preamble", "tests", "docstring", "after"
    section,     \* number N of the enclosing "# Test N:" section, 0 outside
    headings,    \* numbers of the test headings met so far, in file order
    instr,       \* instruction numbers met so far, with the region they were in
    delims,      \* number of triple-quote delimiter lines met so far
    docStart,    \* line of the first triple-quote delimiter, 0 if none yet
    lastHeading, \* line of the last text "# Test N:" met, 0 if none
    lastMarker,  \* line of the last "Cursor here" comment met, 0 if none
    codeIndent,  \* indentation of the nearest code line strictly above, -1 if none
    kinds,       \* pairs <<section, construct>> met in the code of the sections
    newlines,    \* newline characters consumed so far
    cursor,      \* <<line, column>> of the editor cursor, <<0, 0>> if not placed
    placed,      \* sections in which the cursor has been placed on a marker
    pline,       \* parser: number of the last line consumed
    pstatus,     \* parser: "scanning", "rejected", "accepted"
    pstack,      \* parser: indentation stack
    pending,     \* parser: line of a block header still waiting for its block, 0 if none
    pdepth,      \* parser: depth of open brackets
    pstring,     \* parser: inside a triple-quoted string
    pblame       \* parser: header line blamed by the rejection, 0 if none

tvars == <<tpc, tline, region, section, headings, instr, delims, docStart,
           lastHeading, lastMarker, codeIndent, kinds, newlines, cursor, placed>>
pvars == <<pline, pstatus, pstack, pending, pdepth, pstring, pblame>>
vars == <<tpc, tline, region, section, headings, instr, delims, docStart,
          lastHeading, lastMarker, codeIndent, kinds, newlines, cursor, placed,
          pline, pstatus, pstack, pending, pdepth, pstring, pblame>>

(***************************************************************************)
(* The fixture, line by line.                                              *)
(***************************************************************************)

\* src/test-ghost-text.py lines 1-3
Preamble ==
  <<
    "# xCopilot Ghost Text Test File - Python",
    "# Test various Python scenarios for ghost text suggestions",
    ""
  >>

\* Test 1 whose first function has a body
Test1_Pass ==
  <<
    "# Test 1: Function definitions",
    "def calculate_sum(a, b):",
    "    # Cursor here should suggest: return a + b",
    "    pass",
    "def process_data(df):",
    "    # Cursor here should suggest pandas operations or data processing",
    ""
  >>

\* src/test-ghost-text.py lines 4-10
Test1 ==
  <<
    "# Test 1: Function definitions",
    "def calculate_sum(a, b):",
    "    # Cursor here should suggest: return a + b",
    "",
    "def process_data(df):",
    "    # Cursor here should suggest pandas operations or data processing",
    ""
  >>

\* src/test-ghost-text.py lines 11-20
Test2 ==
  <<
    "# Test 2: Class definitions",
    "class UserService:",
    "    def __init__(self):",
    "        # Cursor here should suggest initialization",
    "    ",
    "    def get_user(self, user_id):",
    "        # Cursor here should suggest database query or API call",
    "    ",
    "    # Cursor here should suggest new methods",
    ""
  >>

\* Test 3 whose if block holds a statement
Test3_WithBody ==
  <<
    "# Test 3: Conditional statements",
    "def check_user(user):",
    "    if user and user.get('active'):",
    "        # Cursor here should suggest appropriate action",
    "        user.touch()",
    "    # Cursor here should suggest else clause",
    ""
  >>

\* src/test-ghost-text.py lines 21-27
Test3 ==
  <<
    "# Test 3: Conditional statements",
    "def check_user(user):",
    "    if user and user.get('active'):",
    "        # Cursor here should suggest appropriate action",
    "    ",
    "    # Cursor here should suggest else clause",
    ""
  >>

\* src/test-ghost-text.py lines 28-34
Test4 ==
  <<
    "# Test 4: Loop structures  ",
    "def process_items(items):",
    "    for item in items:",
    "        # Cursor here should suggest item processing",
    "    ",
    "    # Cursor here should suggest return or next logic",
    ""
  >>

\* src/test-ghost-text.py lines 35-39
Test5 ==
  <<
    "# Test 5: List comprehensions",
    "users = [user for user in data if ",
    "    # Cursor here should suggest filter condition",
    "]",
    ""
  >>

\* Test 6 headed with the number of Test 5
Test6_Renumbered ==
  <<
    "# Test 5: Dictionary operations",
    "user_data = {",
    "    'id': user_id,",
    "    'name': user_name,",
    "    # Cursor here should suggest more fields",
    "}",
    ""
  >>

\* src/test-ghost-text.py lines 40-46
Test6 ==
  <<
    "# Test 6: Dictionary operations",
    "user_data = {",
    "    'id': user_id,",
    "    'name': user_name,",
    "    # Cursor here should suggest more fields",
    "}",
    ""
  >>

\* Test 7 without an exception handler
Test7_NoHandler ==
  <<
    "# Test 7: Exception handling",
    "try:",
    "    # Cursor here should suggest try block content",
    "finally:",
    "    # Cursor here should suggest error handling",
    ""
  >>

\* src/test-ghost-text.py lines 47-52
Test7 ==
  <<
    "# Test 7: Exception handling",
    "try:",
    "    # Cursor here should suggest try block content",
    "except Exception as e:",
    "    # Cursor here should suggest error handling",
    ""
  >>

\* src/test-ghost-text.py lines 53-56
Test8 ==
  <<
    "# Test 8: Async functions (Python 3.7+)",
    "async def fetch_data():",
    "    # Cursor here should suggest await patterns",
    ""
  >>

\* Test 9 whose marker states no expectation
Test9_NoExpectation ==
  <<
    "# Test 9: Lambda functions",
    "process_func = lambda x: ",
    "    # Cursor here: lambda body",
    ""
  >>

\* src/test-ghost-text.py lines 57-60
Test9 ==
  <<
    "# Test 9: Lambda functions",
    "process_func = lambda x: ",
    "    # Cursor here should suggest lambda body",
    ""
  >>

\* Test 10 whose marker is not indented
Test10_Flush ==
  <<
    "# Test 10: Import statements",
    "from datetime import ",
    "# Cursor here should suggest datetime imports",
    ""
  >>

\* src/test-ghost-text.py lines 61-64
Test10 ==
  <<
    "# Test 10: Import statements",
    "from datetime import ",
    "    # Cursor here should suggest datetime imports",
    ""
  >>

\* src/test-ghost-text.py lines 65-68
Test11 ==
  <<
    "# Test 11: With statements",
    "with open('file.txt', 'r') as file:",
    "    # Cursor here should suggest file operations",
    ""
  >>

\* the instructions with a number skipped
Instructions_Gap ==
  <<
    "\"\"\"",
    "Instructions for testing Python ghost text:",
    "1. Open this file in VS Code with xCopilot extension enabled",
    "2. Place cursor at the end of comment lines mentioning \"Cursor here\"",
    "3. Wait 500ms for ghost text to appear",
    "4. Verify Python-specific suggestions appear",
    "5. Test multi-line function and class suggestions",
    "7. Test context-aware suggestions based on function names",
    "8. Verify language-specific patterns are detected",
    "\"\"\""
  >>

\* src/test-ghost-text.py lines 69-78
Instructions ==
  <<
    "\"\"\"",
    "Instructions for testing Python ghost text:",
    "1. Open this file in VS Code with xCopilot extension enabled",
    "2. Place cursor at the end of comment lines mentioning \"Cursor here\"",
    "3. Wait 500ms for ghost text to appear",
    "4. Verify Python-specific suggestions appear",
    "5. Test multi-line function and class suggestions",
    "6. Test context-aware suggestions based on function names",
    "7. Verify language-specific patterns are detected",
    "\"\"\""
  >>

\* the whole file, in order
Lines ==
  Preamble \o Test1 \o Test2 \o Test3 \o Test4 \o Test5 \o Test6 \o Test7
    \o Test8 \o Test9 \o Test10 \o Test11 \o Instructions

NumLines == Len(Lines)

\* the file saved with a newline after its last line
FinalNewline_Present == TRUE

\* the last line of the file ('"""') is not followed by a newline character
FinalNewline == FALSE

(***************************************************************************)
(* Reading a line of text.                                                 *)
(***************************************************************************)

Char(s, i) == SubSeq(s, i, i)

StartsAt(s, i, t) == i + Len(t) - 1 <= Len(s) /\ SubSeq(s, i, i + Len(t) - 1) = t

Contains(s, t) == \E i \in 1..Len(s) : StartsAt(s, i, t)

\* number of leading spaces
Indent(s) ==
  CHOOSE n \in 0..Len(s) :
    /\ \A i \in 1..n : Char(s, i) = " "
    /\ n < Len(s) => Char(s, n + 1) # " "

\* index of the last character that is not a space, 0 if there is none
TrimEnd(s) ==
  CHOOSE n \in 0..Len(s) :
    /\ \A i \in (n + 1)..Len(s) : Char(s, i) = " "
    /\ n > 0 => Char(s, n) # " "

IsBlank(s) == Indent(s) = Len(s)

\* a full-line comment: only whitespace before the '#'
IsComment(s) == StartsAt(s, Indent(s) + 1, "#")

IsCode(s) == ~IsBlank(s) /\ ~IsComment(s)

\* the line without its indentation and trailing spaces
Body(s) == SubSeq(s, Indent(s) + 1, TrimEnd(s))

Digits == {"0", "1", "2", "3", "4", "5", "6", "7", "8", "9"}

DigitVal(c) ==
  CASE c = "0" -> 0 [] c = "1" -> 1 [] c = "2" -> 2 [] c = "3" -> 3
    [] c = "4" -> 4 [] c = "5" -> 5 [] c = "6" -> 6 [] c = "7" -> 7
    [] c = "8" -> 8 [] c = "9" -> 9

\* number of consecutive digits of s from position i on
DigitRun(s, i) ==
  CHOOSE n \in 0..Len(s) :
    /\ \A k \in i..(i + n - 1) : k <= Len(s) /\ Char(s, k) \in Digits
    /\ i + n <= Len(s) => Char(s, i + n) \notin Digits

RECURSIVE NatOf(_, _, _)
\* value of the n digits of s that start at position i
NatOf(s, i, n) ==
  IF n = 0 THEN 0 ELSE NatOf(s, i, n - 1) * 10 + DigitVal(Char(s, i + n - 1))

HeadingPrefix == "# Test "

\* N for a heading "# Test N: ...", 0 for any other line
HeadingNumber(s) ==
  LET i == Len(HeadingPrefix) + 1
      n == DigitRun(s, i)
  IN IF StartsAt(s, 1, HeadingPrefix) /\ n > 0 /\ StartsAt(s, i + n, ":")
     THEN NatOf(s, i, n) ELSE 0

\* N for an instruction line "N. ...", 0 for any other line
InstructionNumber(s) ==
  LET n == DigitRun(s, 1)
  IN IF n > 0 /\ StartsAt(s, n + 1, ". ") THEN NatOf(s, 1, n) ELSE 0

IsDocDelim(s) == Body(s) = "\"\"\""

MarkerText == "Cursor here"

ExpectText == "should suggest"

Mentions(s) == Contains(s, MarkerText)

\* a comment line the tester is sent to by instruction 2
IsMarker(s) == IsComment(s) /\ Mentions(s)

HeaderWords ==
  {"def ", "async def ", "class ", "if ", "elif ", "else:", "for ", "while ",
   "with ", "try:", "except ", "except:", "finally:"}

\* a compound-statement header: a code line that opens with one of the
\* header keywords and whose last character is ':'
IsHeader(s) ==
  /\ IsCode(s)
  /\ \E w \in HeaderWords : StartsAt(s, Indent(s) + 1, w)
  /\ StartsAt(s, TrimEnd(s), ":")

\* the constructs the code of a line shows
KindsOf(s) ==
  IF ~IsCode(s) THEN {}
  ELSE
    (IF \E w \in {"def ", "async def "} : StartsAt(s, Indent(s) + 1, w)
       THEN {"function"} ELSE {})
    \cup (IF StartsAt(s, Indent(s) + 1, "class ") THEN {"class"} ELSE {})
    \cup (IF IsHeader(s) /\ \E w \in {"for ", "while "} : StartsAt(s, Indent(s) + 1, w)
            THEN {"loop"} ELSE {})
    \cup (IF \E i \in 1..Len(s) :
               /\ Char(s, i) \in {"[", "{", "("}
               /\ \E j \in (i + 1)..Len(s) :
                    /\ StartsAt(s, j, " for ")
                    /\ \E k \in (j + 1)..Len(s) : StartsAt(s, k, " in ")
            THEN {"comprehension"} ELSE {})
    \cup (IF IsHeader(s) /\ \E w \in {"except ", "except:"} : StartsAt(s, Indent(s) + 1, w)
            THEN {"exception handler"} ELSE {})

(***************************************************************************)
(* The tester: instructions 1 and 2 of the trailing docstring.             *)
(***************************************************************************)

\* the tester may leave line n: it is no marker, or the cursor was placed on it
Visited(n) == IF n = 0 THEN TRUE ELSE ~IsMarker(Lines[n]) \/ cursor[1] = n

\* region of line l, read when delims delimiter lines lie above it
RegionOf(l, delimsAbove, regionAbove) ==
  IF delimsAbove % 2 = 1 \/ IsDocDelim(l) THEN "docstring"
  ELSE IF HeadingNumber(l) > 0 THEN "tests"
  ELSE IF regionAbove = "docstring" THEN "after"
  ELSE regionAbove

\* instruction 1: open the file in the editor
Open ==
  /\ tpc = "closed"
  /\ tpc' = "reading"
  /\ UNCHANGED <<tline, region, section, headings, instr, delims, docStart,
                 lastHeading, lastMarker, codeIndent, kinds, newlines, cursor, placed>>
  /\ UNCHANGED pvars

\* the tester moves on to the next line of the file
ReadLine ==
  /\ tpc = "reading"
  /\ tline < NumLines
  /\ Visited(tline)
  /\ LET n == tline + 1
         l == Lines[n]
         h == HeadingNumber(l)
         r == RegionOf(l, delims, region)
         sec == IF r = "tests" THEN (IF h > 0 THEN h ELSE section) ELSE 0
     IN /\ tline' = n
        /\ region' = r
        /\ section' = sec
        /\ headings' = IF r = "tests" /\ h > 0 THEN Append(headings, h) ELSE headings
        /\ instr' = IF InstructionNumber(l) > 0
                      THEN Append(instr, <<InstructionNumber(l), r>>) ELSE instr
        /\ delims' = IF IsDocDelim(l) THEN delims + 1 ELSE delims
        /\ docStart' = IF IsDocDelim(l) /\ docStart = 0 THEN n ELSE docStart
        /\ lastHeading' = IF h > 0 THEN n ELSE lastHeading
        /\ lastMarker' = IF IsMarker(l) THEN n ELSE lastMarker
        /\ codeIndent' = IF tline > 0 /\ IsCode(Lines[tline])
                           THEN Indent(Lines[tline]) ELSE codeIndent
        /\ kinds' = IF r = "tests"
                      THEN kinds \cup {<<sec, k>> : k \in KindsOf(l)} ELSE kinds
        /\ newlines' = IF n < NumLines \/ FinalNewline THEN newlines + 1 ELSE newlines
  /\ UNCHANGED <<tpc, cursor, placed>>
  /\ UNCHANGED pvars

\* instruction 2: place the cursor at the end of a comment line mentioning
\* "Cursor here"
PlaceCursor ==
  /\ tpc = "reading"
  /\ tline > 0
  /\ IsMarker(Lines[tline])
  /\ cursor[1] # tline
  /\ cursor' = <<tline, Len(Lines[tline]) + 1>>
  /\ placed' = placed \cup {section}
  /\ UNCHANGED <<tpc, tline, region, section, headings, instr, delims, docStart,
                 lastHeading, lastMarker, codeIndent, kinds, newlines>>
  /\ UNCHANGED pvars

\* the tester has reached the end of the file
Finish ==
  /\ tpc = "reading"
  /\ tline = NumLines
  /\ Visited(tline)
  /\ tpc' = "done"
  /\ UNCHANGED <<tline, region, section, headings, instr, delims, docStart,
                 lastHeading, lastMarker, codeIndent, kinds, newlines, cursor, placed>>
  /\ UNCHANGED pvars

(***************************************************************************)
(* The Python front end: logical lines, INDENT/DEDENT and the rule that a  *)
(* compound-statement header is followed by an indented block.  This is a  *)
(* necessary condition for a file to be a Python module, so a rejection    *)
(* here is a rejection by Python; expressions are not parsed.              *)
(***************************************************************************)

TripleQuote == "\"\"\""

Count(s, cs) == Cardinality({i \in 1..Len(s) : Char(s, i) \in cs})

\* brackets a code line leaves open (negative: it closes more than it opens)
BracketDelta(s) == Count(s, {"(", "[", "{"}) - Count(s, {")", "]", "}"})

\* the line opens or closes a triple-quoted string
TogglesString(s) ==
  Cardinality({i \in 1..Len(s) : StartsAt(s, i, TripleQuote)}) % 2 = 1

RECURSIVE Dedent(_, _)
\* the indentation stack after the DEDENTs a line indented by ind produces
Dedent(stack, ind) ==
  IF Len(stack) > 1 /\ stack[Len(stack)] > ind
    THEN Dedent(SubSeq(stack, 1, Len(stack) - 1), ind)
    ELSE stack

\* the parser's state after it consumes the next line (or the end of file)
Parse(p) ==
  LET n == p.line + 1
      reject(b) == [p EXCEPT !.line = n, !.status = "rejected", !.blame = b]
  IN
  IF n > NumLines THEN
    IF p.string \/ p.depth > 0 \/ p.pending # 0
      THEN reject(p.pending)
      ELSE [p EXCEPT !.line = n, !.status = "accepted"]
  ELSE LET l == Lines[n] IN
    IF p.string THEN
      [p EXCEPT !.line = n, !.string = ~TogglesString(l)]
    ELSE IF ~IsCode(l) THEN
      [p EXCEPT !.line = n]
    ELSE IF p.depth > 0 THEN
      IF p.depth + BracketDelta(l) < 0 THEN reject(0)
      ELSE [p EXCEPT !.line = n, !.depth = p.depth + BracketDelta(l),
                     !.string = TogglesString(l)]
    ELSE
      LET ind == Indent(l)
          top == p.stack[Len(p.stack)]
          stack == IF ind > top THEN Append(p.stack, ind) ELSE Dedent(p.stack, ind)
      IN
      IF p.pending # 0 /\ ind <= top THEN reject(p.pending)
      ELSE IF p.pending = 0 /\ ind > top THEN reject(0)
      ELSE IF stack[Len(stack)] # ind THEN reject(0)
      ELSE IF BracketDelta(l) < 0 THEN reject(0)
      ELSE [p EXCEPT !.line = n, !.stack = stack,
                     !.pending = IF IsHeader(l) THEN n ELSE 0,
                     !.depth = BracketDelta(l),
                     !.string = TogglesString(l)]

\* the parser consumes one line
ParserStep ==
  /\ pstatus = "scanning"
  /\ LET q == Parse([line |-> pline, status |-> pstatus, stack |-> pstack,
                     pending |-> pending, depth |-> pdepth, string |-> pstring,
                     blame |-> pblame])
     IN /\ pline' = q.line
        /\ pstatus' = q.status
        /\ pstack' = q.stack
        /\ pending' = q.pending
        /\ pdepth' = q.depth
        /\ pstring' = q.string
        /\ pblame' = q.blame
  /\ UNCHANGED tvars

Init ==
  /\ tpc = "closed"
  /\ tline = 0
  /\ region = "preamble"
  /\ section = 0
  /\ headings = <<>>
  /\ instr = <<>>
  /\ delims = 0
  /\ docStart = 0
  /\ lastHeading = 0
  /\ lastMarker = 0
  /\ codeIndent = -1
  /\ kinds = {}
  /\ newlines = 0
  /\ cursor = <<0, 0>>
  /\ placed = {}
  /\ pline = 0
  /\ pstatus = "scanning"
  /\ pstack = <<0>>
  /\ pending = 0
  /\ pdepth = 0
  /\ pstring = FALSE
  /\ pblame = 0

Next == Open \/ ReadLine \/ PlaceCursor \/ Finish \/ ParserStep

Spec == Init /\ [][Next]_vars

(***************************************************************************)
(* Properties.                                                             *)
(***************************************************************************)

\* the line the tester is reading
Current == Lines[tline]

\* the first code line below header n that is indented no deeper than it
\* (one past the end of the file if there is none)
BlockEnd(n) ==
  LET ends == {m \in (n + 1)..NumLines :
                 IsCode(Lines[m]) /\ Indent(Lines[m]) <= Indent(Lines[n])}
  IN IF ends = {} THEN NumLines + 1
     ELSE CHOOSE m \in ends : \A k \in ends : m <= k

\* the lines of the block of header n
Block(n) == (n + 1)..(BlockEnd(n) - 1)

\* header n has no other header nested in its block
Leaf(n) == \A m \in Block(n) : ~IsHeader(Lines[m])

\* C1: every line of a test section that mentions "Cursor here" is a
\* full-line '#' comment and says "should suggest", and once the tester has
\* walked the file the cursor has been placed on such a line in each of the
\* sections Test 1 .. Test 11.
C1_MarkersAnnotated ==
  /\ (tline > 0 /\ region = "tests" /\ Mentions(Current)) =>
       (IsComment(Current) /\ Contains(Current, ExpectText))
  /\ tpc = "done" => placed = 1..11

C1_Witness ==
  /\ tline > 0
  /\ region = "tests"
  /\ section = 11
  /\ Mentions(Current)
  /\ cursor[1] = tline

\* C2: the block of a compound-statement header holds no executable
\* statement: under a header with no nested header the lines up to the next
\* code line at equal or lesser indentation are comments or blank, and under
\* any header the only code lines of the block are nested headers.
C2_NoRuntimeLogic ==
  (tline > 0 /\ IsHeader(Current)) =>
    /\ Leaf(tline) => \A m \in Block(tline) : ~IsCode(Lines[m])
    /\ \A m \in Block(tline) : IsCode(Lines[m]) => IsHeader(Lines[m])

C2_Witness ==
  /\ tline > 0
  /\ IsHeader(Current)
  /\ Leaf(tline)
  /\ StartsAt(Current, 1, "with ")
  /\ \E m \in Block(tline) : IsMarker(Lines[m])

\* C3: the parser never accepts the file; it cannot scan to the end of the
\* file, and when it rejects, the header it blames is
\* 'def calculate_sum(a, b):', below which no code line stands before the
\* line, indented no deeper than the header, where the rejection happens.
C3_ParserRejects ==
  /\ pstatus # "accepted"
  /\ pstatus = "scanning" => pline < NumLines
  /\ pstatus = "rejected" =>
       /\ pblame > 0
       /\ Body(Lines[pblame]) = "def calculate_sum(a, b):"
       /\ \A m \in (pblame + 1)..(pline - 1) : ~IsCode(Lines[m])
       /\ pline <= NumLines
       /\ IsCode(Lines[pline])
       /\ Indent(Lines[pline]) <= Indent(Lines[pblame])

C3_Witness == pstatus = "rejected" /\ pblame > 0 /\ pline > pblame

\* C4: once the tester has walked the file, a function was met in Test 1, a
\* class in Test 2, a loop in Test 4, a comprehension in Test 5 and an
\* exception handler in Test 7, and the cursor was placed on a "Cursor here"
\* comment in each of these sections.
C4_ConstructsCovered ==
  tpc = "done" =>
    /\ {<<1, "function">>, <<2, "class">>, <<4, "loop">>,
        <<5, "comprehension">>, <<7, "exception handler">>} \subseteq kinds
    /\ {1, 2, 4, 5, 7} \subseteq placed

C4_Witness ==
  /\ tpc = "done"
  /\ <<7, "exception handler">> \in kinds
  /\ 7 \in placed

\* C5: the instruction lines met so far are numbered 1, 2, 3, ... in order
\* and all lie in the docstring; no test heading and no "Cursor here"
\* comment stands at or below the line that opens the docstring; and at the
\* end of the file there are 7 instructions, the last section met is
\* Test 11, and the docstring is the only one and is closed by the last line.
C5_InstructionsAtBottom ==
  /\ \A i \in 1..Len(instr) : instr[i] = <<i, "docstring">>
  /\ docStart > 0 => (lastHeading < docStart /\ lastMarker < docStart)
  /\ tpc = "done" =>
       /\ Len(instr) = 7
       /\ delims = 2
       /\ docStart > 0
       /\ IsDocDelim(Lines[NumLines])
       /\ Len(headings) > 0
       /\ headings[Len(headings)] = 11

C5_Witness == tpc = "done" /\ Len(instr) = 7 /\ region = "docstring"

\* C7: the headings met so far are numbered 1, 2, 3, ... in file order, the
\* last of them is 11 when the file has been walked, and a "Cursor here"
\* comment outside the docstring is met only after the heading of Test 1.
C7_HeadingsConsecutive ==
  /\ \A i \in 1..Len(headings) : headings[i] = i
  /\ tpc = "done" => Len(headings) = 11
  /\ (tline > 0 /\ IsMarker(Current) /\ region # "docstring") =>
       (Len(headings) >= 1 /\ lastHeading > 0 /\ lastHeading < tline)

C7_Witness == Len(headings) = 11 /\ tline > 0 /\ HeadingNumber(Current) = 11

\* C8: a "Cursor here" comment of a test section is indented by 4 or 8
\* spaces, and by at most 4 spaces more than the nearest code line above it.
C8_MarkerIndentation ==
  (tline > 0 /\ region = "tests" /\ IsMarker(Current)) =>
    /\ Indent(Current) \in {4, 8}
    /\ codeIndent >= 0
    /\ Indent(Current) - codeIndent <= 4

C8_Witness ==
  /\ tline > 0
  /\ region = "tests"
  /\ IsMarker(Current)
  /\ Indent(Current) = 8
  /\ codeIndent = 4

\* C9 as stated: the walk of the file ends on line 77.
C9_SeventySevenLines == tpc = "done" => tline = 77

\* C9 as amended: the file has 78 lines, of which 77 end in a newline; the
\* last line, the closing triple quote, does not.
C9_LinesAndNewlines ==
  tpc = "done" => (tline = 78 /\ newlines = 77 /\ IsDocDelim(Current))

C9_Witness == tpc = "done" /\ tline = NumLines /\ newlines = tline - 1

====
